---- MODULE Spec2Model ----
(***************************************************************************)
(* Model of the ACL v1.1.0 compressed-clip codec of                        *)
(* addons/blender_uasset_addon/unreal/acl.py: CompressedClip.read (decode) *)
(* and CompressedClip.write (encode) over a byte stream.                   *)
(*                                                                         *)
(* A byte is an integer 0..255, the stream f is a sequence of bytes and    *)
(* pos is f.tell().  A float32 is represented by its IEEE-754 bit pattern, *)
(* written as four bytes most significant first; the arithmetic of the     *)
(* range reduction is done on exact rationals <<numerator, denominator>>.  *)
(***************************************************************************)
EXTENDS Integers, Sequences, FiniteSets, TLC

(***************************************************************************)
(* Bounds of the model.                                                    *)
(***************************************************************************)
MaxSegments == 2
MaxSamples == 2

(***************************************************************************)
(* Sequence helpers with Python's semantics.                               *)
(***************************************************************************)
Min(a, b) == IF a < b THEN a ELSE b
Max(a, b) == IF a > b THEN a ELSE b

\* s[a:b] of Python: indexes are 0-based, negative ones count from the end,
\* and both are clamped to the sequence.
PySlice(s, a, b) ==
    LET n  == Len(s)
        a1 == IF a < 0 THEN Max(a + n, 0) ELSE Min(a, n)
        b1 == IF b < 0 THEN Max(b + n, 0) ELSE Min(b, n)
    IN  IF b1 <= a1 THEN <<>> ELSE SubSeq(s, a1 + 1, b1)

RECURSIVE Flatten(_)
Flatten(ss) == IF ss = <<>> THEN <<>> ELSE Head(ss) \o Flatten(Tail(ss))

RECURSIVE SumSeq(_)
SumSeq(s) == IF s = <<>> THEN 0 ELSE Head(s) + SumSeq(Tail(s))

Repeat(x, n) == [i \in 1..Max(n, 0) |-> x]

RECURSIVE Pow2(_)
Pow2(n) == IF n <= 0 THEN 1 ELSE 2 * Pow2(n - 1)

\* format(i, "b"): the binary digits of i without leading zeros.
RECURSIVE Format_b(_)
Format_b(i) == IF i < 2 THEN <<i>> ELSE Format_b(i \div 2) \o <<i % 2>>

\* str.zfill(width)
Zfill(s, width) == IF Len(s) >= width THEN s ELSE Repeat(0, width - Len(s)) \o s

\* int(b, 2)
RECURSIVE IntOfBits(_)
IntOfBits(b) ==
    IF b = <<>> THEN 0 ELSE 2 * IntOfBits(SubSeq(b, 1, Len(b) - 1)) + b[Len(b)]

(***************************************************************************)
(* The byte cursor (io_util and the file object).                          *)
(***************************************************************************)
\* f.read(n): at most n bytes, fewer at the end of the stream.
Read(s, p, n) == PySlice(s, p, p + Max(n, 0))
Tell(s, p, n) == Min(p + Max(n, 0), Len(s))

\* f.readinto(struct): the struct is zero-initialised and filled with what is left.
ReadInto(s, p, n) == LET got == Read(s, p, n) IN got \o Repeat(0, n - Len(got))

\* little-endian unsigned integers
U16(b, o) == b[o + 1] + 256 * b[o + 2]
U32(b, o) == b[o + 1] + 256 * b[o + 2] + 65536 * b[o + 3] + 16777216 * b[o + 4]
\* little-endian signed 32-bit integer (c_int32)
I32(b, o) ==
    b[o + 1] + 256 * b[o + 2] + 65536 * b[o + 3]
      + 16777216 * (IF b[o + 4] >= 128 THEN b[o + 4] - 256 ELSE b[o + 4])
\* signed 8-bit integer
I8(x) == IF x >= 128 THEN x - 256 ELSE x

U16Bytes(n) == <<n % 256, (n \div 256) % 256>>
U32Bytes(n) == <<n % 256, (n \div 256) % 256, (n \div 65536) % 256, (n \div 16777216) % 256>>

\* A uint32 that may exceed the model's integers is kept as two 16-bit halves.
Word(b, o) == [hi |-> U16(b, o + 2), lo |-> U16(b, o)]
WordBytes(w) == U16Bytes(w.lo) \o U16Bytes(w.hi)
\* format(w, "b") of such a value
Format_b32(w) ==
    IF w.hi = 0 THEN Format_b(w.lo) ELSE Format_b(w.hi) \o Zfill(Format_b(w.lo), 16)

\* A float32 read little-endian: its bit pattern, most significant byte first.
F32LE(b, o) == <<b[o + 4], b[o + 3], b[o + 2], b[o + 1]>>
F32LEBytes(x) == <<x[4], x[3], x[2], x[1]>>

(***************************************************************************)
(* Tables of the format.                                                   *)
(***************************************************************************)
ROTATION_FORMAT ==
    <<"Quat_128", "QuatDropW_96", "QuatDropW_48", "QuatDropW_32", "QuatDropW_Variable">>
VECTOR_FORMAT == <<"Vector3_96", "Vector3_48", "Vector3_32", "Vector3_Variable">>
\* Python's None is the string "<None>"; the string 'None' is a flag of its own.
RANGE_REDUCTION_FLAGS ==
    <<"None", "Rotations", "Translations", "<None>", "Scales", "<None>", "<None>", "AllTracks">>
BIT_RATE_NUM_BITS == <<0, 3, 4, 5, 6, 7, 8, 9, 10, 11, 12, 13, 14, 15, 16, 17, 18, 19, 32>>

ClipHeaderSize == 32
SegmentHeaderSize == 20
PreambleSize == 16
TailSize == 15
Sentinel == 205
BufferTag == <<16, 172, 16, 172>>

(***************************************************************************)
(* The records decode is run on.  A template describes a record that is    *)
(* laid out as the format lays it out; Build makes its bytes.  The inputs  *)
(* are templates and templates with one byte changed.                      *)
(***************************************************************************)
PatBit(pat, i) ==
    CASE pat = "zero"  -> 0
      [] pat = "one"   -> 1
      [] pat = "alt"   -> i % 2
      [] pat = "third" -> IF i % 3 = 0 THEN 1 ELSE 0
      [] pat = "most"  -> IF i % 16 = 5 THEN 0 ELSE 1
      [] pat = "mid"   -> IF i \div 4 = 1 THEN 1 ELSE 0
      [] OTHER         -> 0

TNumAttr(t) == 2 + t.hs
TNumFlags(t) == t.nb * TNumAttr(t)
TNumWords(t) == (TNumFlags(t) + 31) \div 32
\* the flag bits of a bitset, then the unused bits of its last word
TBits(t, pat) ==
    [i \in 1..(32 * TNumWords(t)) |-> IF i <= TNumFlags(t) THEN PatBit(pat, i - 1) ELSE t.junk]
\* bits (most significant first) of 32-bit words, as little-endian bytes
RECURSIVE BitsToWordsLE(_)
BitsToWordsLE(bits) ==
    IF Len(bits) < 32 THEN <<>>
    ELSE <<IntOfBits(SubSeq(bits, 25, 32)), IntOfBits(SubSeq(bits, 17, 24)),
           IntOfBits(SubSeq(bits, 9, 16)), IntOfBits(SubSeq(bits, 1, 8))>>
         \o BitsToWordsLE(SubSeq(bits, 33, Len(bits)))

\* the components of the record that are not constant: per bone, 3 less its
\* constant flags and less the slot no flag stands for
TBoneRangeCount(t, b) ==
    3 - Cardinality({a \in 1..TNumAttr(t) : PatBit(t.conPat, b * TNumAttr(t) + a - 1) = 1})
      - (IF TNumAttr(t) # 3 THEN 1 ELSE 0)
TRangeCount(t) == Max(SumSeq([b \in 1..t.nb |-> TBoneRangeCount(t, b - 1)]), 0)
TConstCount(t) ==
    3 * Cardinality({i \in 1..TNumFlags(t) :
                        PatBit(t.defPat, i - 1) = 0 /\ PatBit(t.conPat, i - 1) = 1})
\* constant floats: distinct small patterns, little-endian on the stream
TConstBytes(t) ==
    Flatten([i \in 1..(TConstCount(t) + t.extraConst) |-> <<0, 0, i % 128, 64>>])

\* 0.0, 1.0, 2.0, 3.0, 0.5 and -1.0 as float32, little-endian
FZero == <<0, 0, 0, 0>>
FOne == <<0, 0, 128, 63>>
FTwo == <<0, 0, 0, 64>>
FThree == <<0, 0, 64, 64>>
FHalf == <<0, 0, 0, 63>>
FMinusOne == <<0, 0, 128, 191>>
TClipRangeBytes(t) ==
    Flatten([j \in 1..TRangeCount(t) |->
        IF t.unit THEN FZero \o FZero \o FZero \o FOne \o FOne \o FOne
        ELSE IF j % 2 = 1 THEN FZero \o FMinusOne \o FHalf \o FOne \o FTwo \o FThree
        ELSE FHalf \o FZero \o FMinusOne \o FThree \o FOne \o FTwo])
TSegRangeBytes(t) ==
    IF t.srr # 7 THEN <<>>
    ELSE Flatten([j \in 1..TRangeCount(t) |->
            IF j % 2 = 1 THEN <<0, 255, 2, 1, 3, 127>> ELSE <<1, 0, 254, 2, 1, 5>>])

\* bit-rate byte of component j (1-based) of segment s (1-based)
TRate(t, s, j) == IF (j + s) % 2 = 0 THEN t.rateA ELSE t.rateB
TWidth(r) == IF r + 1 \in DOMAIN BIT_RATE_NUM_BITS THEN BIT_RATE_NUM_BITS[r + 1] ELSE 0
TPoseBits(t, s) == 3 * SumSeq([j \in 1..TRangeCount(t) |-> TWidth(TRate(t, s, j))])
TBlockLen(t, s) == (TPoseBits(t, s) * t.nsamp + 7) \div 8
TFill(t, i) ==
    CASE t.fill = "mix"  -> (37 * i + 11) % 256
      [] t.fill = "ends" -> IF (i \div 3) % 2 = 0 THEN 0 ELSE 255
      [] OTHER           -> 255
PadTo(rel, m) == (m - (rel % m)) % m

\* offsets, relative to the clip header, of the sections of the record
TSegmentsStart(t) ==
    ClipHeaderSize + SegmentHeaderSize * t.ns + 8 * TNumWords(t)
      + Len(TConstBytes(t)) + 24 * TRangeCount(t)
RECURSIVE TSegLayout(_, _, _)
TSegLayout(t, s, rel) ==
    IF s > t.ns THEN <<>>
    ELSE LET fmt  == rel
             pad2 == fmt + TRangeCount(t)
             rng  == pad2 + PadTo(pad2, 2)
             pad4 == rng + Len(TSegRangeBytes(t))
             trk  == pad4 + PadTo(pad4, 4)
             end  == trk + TBlockLen(t, s)
         IN  <<[fmt |-> fmt, pad2 |-> pad2, rng |-> rng, pad4 |-> pad4, trk |-> trk, end |-> end]>>
             \o TSegLayout(t, s + 1, end)
TLayout(t) == TSegLayout(t, 1, TSegmentsStart(t))
TBodyEnd(t) == IF t.ns = 0 THEN TSegmentsStart(t) ELSE TLayout(t)[t.ns].end

TClipHeader(t) ==
    U16Bytes(t.nb) \o U16Bytes(t.ns)
      \o <<t.rot, t.trans, t.scale, t.crr, t.srr, t.hs, t.ds, 0>>
      \o U32Bytes(t.ns * t.nsamp) \o U32Bytes(30)
      \o U16Bytes(ClipHeaderSize)
      \o U16Bytes(ClipHeaderSize + SegmentHeaderSize * t.ns)
      \o U16Bytes(ClipHeaderSize + SegmentHeaderSize * t.ns + 4 * TNumWords(t))
      \o U16Bytes(ClipHeaderSize + SegmentHeaderSize * t.ns + 8 * TNumWords(t))
      \o U16Bytes(ClipHeaderSize + SegmentHeaderSize * t.ns + 8 * TNumWords(t)
                    + Len(TConstBytes(t)))
      \o <<0, 0>>
TSegmentHeader(t, s) ==
    LET l == TLayout(t)[s]
    IN  U32Bytes(t.nsamp) \o U32Bytes(TPoseBits(t, s))
          \o U32Bytes(l.fmt) \o U32Bytes(l.rng) \o U32Bytes(l.trk)
TSegmentBody(t, s) ==
    LET l == TLayout(t)[s]
    IN  [j \in 1..TRangeCount(t) |-> TRate(t, s, j)]
          \o Repeat(Sentinel, l.rng - l.pad2)
          \o TSegRangeBytes(t)
          \o Repeat(Sentinel, l.trk - l.pad4)
          \o [i \in 1..TBlockLen(t, s) |-> TFill(t, i - 1)]
TSize(t) == PreambleSize + TBodyEnd(t) + TailSize
Build(t) ==
    Repeat(170, t.base)
      \o U32Bytes(TSize(t)) \o <<1, 2, 3, 4>> \o BufferTag \o <<3, 0, 0, 0>>
      \o TClipHeader(t)
      \o Flatten([s \in 1..t.ns |-> TSegmentHeader(t, s)])
      \o BitsToWordsLE(TBits(t, t.defPat)) \o BitsToWordsLE(TBits(t, t.conPat))
      \o TConstBytes(t) \o TClipRangeBytes(t)
      \o Flatten([s \in 1..t.ns |-> TSegmentBody(t, s)])
      \o Repeat(Sentinel, TailSize)

\* stream positions (0-based) of the padding bytes of the record of t
TPadPositions(t) ==
    LET h == t.base + PreambleSize
    IN  UNION {(h + TLayout(t)[s].pad2)..(h + TLayout(t)[s].rng - 1) : s \in 1..t.ns}
        \cup UNION {(h + TLayout(t)[s].pad4)..(h + TLayout(t)[s].trk - 1) : s \in 1..t.ns}
        \cup (h + TBodyEnd(t))..(h + TBodyEnd(t) + TailSize - 1)

Template(base, nb, hs, ns, fmt, srr, pats, extraConst, unit, nsamp, rates, fill) ==
    [base |-> base, nb |-> nb, hs |-> hs, ns |-> ns,
     rot |-> fmt[1], trans |-> fmt[2], scale |-> fmt[3], crr |-> fmt[4], ds |-> fmt[5],
     srr |-> srr, defPat |-> pats[1], conPat |-> pats[2], junk |-> pats[3],
     extraConst |-> extraConst, unit |-> unit, nsamp |-> nsamp,
     rateA |-> rates[1], rateB |-> rates[2], fill |-> fill]

\* the one combination of formats decode supports
Supported == <<4, 3, 3, 7, 1>>
Bytes == 0..255
RatePairs == {<<6, 6>>, <<0, 6>>, <<6, 0>>, <<1, 17>>, <<18, 1>>, <<1, 18>>, <<19, 6>>}

\* records with animated components: bones, scale, segments, flags, samples, bit rates
BodyTemplates ==
    {Template(3, nb, hs, ns, Supported, srr, <<dp, cp, 1>>, 0, FALSE, nsamp, rates, "mix") :
        nb \in 1..2, hs \in 0..1, ns \in 0..MaxSegments, srr \in {0, 7},
        dp \in {"zero", "alt"}, cp \in {"zero", "third"},
        nsamp \in 0..MaxSamples, rates \in RatePairs}
\* records without animated components: no bone, or every attribute constant
StillTemplates ==
    {Template(3, nb, hs, ns, Supported, srr, <<dp, "one", 1>>, 0, FALSE, nsamp, <<6, 6>>, "mix") :
        nb \in 0..2, hs \in 0..1, ns \in 0..MaxSegments, srr \in {0, 7},
        dp \in {"zero", "alt"}, nsamp \in 0..MaxSamples}
\* one range-reduced component, every bit-rate byte of the table and one beyond it
RateTemplates ==
    {Template(0, 1, 0, 1, Supported, srr, <<"zero", "alt", 1>>, 0, unit, nsamp, <<r, r>>, fill) :
        srr \in {0, 7}, unit \in BOOLEAN, nsamp \in 1..MaxSamples, r \in 0..19,
        fill \in {"mix", "ends", "ones"}}
\* every value of one format byte, and combinations of a few values of all of them
FormatSweeps == {[Supported EXCEPT ![k] = v] : k \in 1..5, v \in Bytes}
FormatMixes == {0, 4, 5} \X {0, 3, 4} \X {2, 3} \X {0, 7, 8} \X {0, 1}
HeaderTemplate(fmt, srr) ==
    Template(0, 1, 1, 1, fmt, srr, <<"zero", "third", 1>>, 0, FALSE, 1, <<6, 6>>, "mix")
HeaderTemplates ==
    {HeaderTemplate(fmt, 0) : fmt \in FormatSweeps}
      \cup {HeaderTemplate(fmt, srr) : fmt \in FormatMixes, srr \in {3, 7, 8}}
      \cup {HeaderTemplate(Supported, srr) : srr \in Bytes}
\* a has_scale byte of 2: four flags per bone, the second of three bones all constant
ScaleTemplates ==
    {Template(0, 3, 2, 1, Supported, srr, <<"zero", "mid", 1>>, 0, FALSE, nsamp, <<6, 1>>, "mix") :
        srr \in {0, 7}, nsamp \in 1..MaxSamples}
\* bitsets of more than one word
BitsetTemplates ==
    {Template(0, nb, hs, 1, Supported, 0, <<dp, cp, junk>>, 0, FALSE, 1, <<6, 6>>, "mix") :
        nb \in {11, 12}, hs \in 0..1, dp \in {"zero", "one", "alt", "third", "most"},
        cp \in {"one", "most"}, junk \in 0..1}
\* a constant-data section longer than the flags demand
ConstTemplates ==
    {Template(0, nb, hs, 1, Supported, 0, <<dp, cp, 1>>, 1, FALSE, 1, <<6, 6>>, "mix") :
        nb \in 1..2, hs \in 0..1, dp \in {"zero", "alt"}, cp \in {"third", "one", "alt"}}
\* the records of which one byte is changed
MutTemplates ==
    {Template(3, 1, hs, ns, Supported, srr, <<"zero", "third", 1>>, 0, FALSE, 1, <<6, 1>>, "mix") :
        hs \in 0..1, ns \in 1..MaxSegments, srr \in {0, 7}}
MutVals == {0, 2, 9}
\* every byte of the record but the upper bytes of num_bones, of num_segments and
\* of a segment's num_samples: the counts of a record stay below 256
TMutable(t) ==
    LET h == t.base + PreambleSize
    IN  {p \in t.base..(t.base + TSize(t) - 1) :
            /\ p \notin {h + 1, h + 3}
            /\ \A s \in 1..t.ns :
                  p - (h + ClipHeaderSize + SegmentHeaderSize * (s - 1)) \notin 1..3}

Templates ==
    BodyTemplates \cup StillTemplates \cup RateTemplates \cup HeaderTemplates
      \cup ScaleTemplates \cup BitsetTemplates
      \cup ConstTemplates \cup MutTemplates
NoMut == 0 - 1
Inputs ==
    {[t |-> t, mp |-> NoMut, mv |-> 0] : t \in Templates}
      \cup UNION {{[t |-> t, mp |-> p, mv |-> v] : p \in TMutable(t), v \in MutVals} :
                    t \in MutTemplates}
Stream(in) ==
    LET b == Build(in.t)
    IN  IF in.mp = NoMut THEN b ELSE [b EXCEPT ![in.mp + 1] = in.mv]

(***************************************************************************)
(* Numbers.  A rational is <<n, d>> in lowest terms with d > 0; <<0, 0>>   *)
(* stands for a value outside the small range the model computes with.     *)
(***************************************************************************)
Abs(x) == IF x < 0 THEN 0 - x ELSE x
RECURSIVE GCD(_, _)
GCD(a, b) == IF b = 0 THEN a ELSE GCD(b, a % b)
NotModelled == <<0, 0>>
RNorm(n, d) ==
    IF d = 0 THEN NotModelled
    ELSE LET g == GCD(Abs(n), Abs(d))
             sg == IF d < 0 THEN 0 - 1 ELSE 1
         IN  <<sg * (n \div g), sg * (d \div g)>>
RMul(x, y) == IF x[2] = 0 \/ y[2] = 0 THEN NotModelled ELSE RNorm(x[1] * y[1], x[2] * y[2])
RAdd(x, y) ==
    IF x[2] = 0 \/ y[2] = 0 THEN NotModelled
    ELSE RNorm(x[1] * y[2] + y[1] * x[2], x[2] * y[2])
\* i / max_int of Python (true division)
RDiv(i, m) == RNorm(i, m)

\* The value of a float32 pattern (most significant byte first), when it is
\* one of the small values n/d with |n| <= 4 and d <= 2.
RECURSIVE OddPart(_)
OddPart(m) == IF m % 2 = 0 /\ m > 0 THEN OddPart(m \div 2) ELSE m
RECURSIVE TrailingZeros(_)
TrailingZeros(m) == IF m % 2 = 0 /\ m > 0 THEN 1 + TrailingZeros(m \div 2) ELSE 0
F32Rat(p) ==
    LET sign == IF p[1] >= 128 THEN 0 - 1 ELSE 1
        e    == (p[1] % 128) * 2 + (p[2] \div 128)
        m    == (p[2] % 128) * 65536 + p[3] * 256 + p[4]
        full == 8388608 + m
        odd  == OddPart(full)
        exp2 == e - 150 + TrailingZeros(full)
    IN  IF e = 0 /\ m = 0 THEN <<0, 1>>
        ELSE IF e = 0 \/ e = 255 \/ odd > 4 \/ exp2 > 2 \/ exp2 < 0 - 1 THEN NotModelled
        ELSE IF exp2 >= 0
             THEN (IF odd * Pow2(exp2) > 4 THEN NotModelled ELSE <<sign * odd * Pow2(exp2), 1>>)
             ELSE <<sign * odd, 2>>
\* a number of the program as a rational: a float32 pattern or already a rational
ToRat(v) == IF Len(v) = 4 THEN F32Rat(v) ELSE v

(***************************************************************************)
(* ClipHeader and SegmentHeader: the fields of the packed little-endian    *)
(* structs, read from the raw bytes f.readinto() filled.                   *)
(***************************************************************************)
num_bones(h) == U16(h.raw, 0)
num_segments(h) == U16(h.raw, 2)
rotation_format(h) == h.raw[5]
translation_format(h) == h.raw[6]
scale_format(h) == h.raw[7]
clip_range_reduction(h) == h.raw[8]
segment_range_reduction(h) == h.raw[9]
has_scale(h) == h.raw[10]
default_scale(h) == h.raw[11]
clip_num_samples(h) == U32(h.raw, 12)
segment_headers_offset(h) == U16(h.raw, 20)
default_tracks_bitset_offset(h) == U16(h.raw, 22)
constant_tracks_bitset_offset(h) == U16(h.raw, 24)
constant_tracks_data_offset(h) == U16(h.raw, 26)
clip_range_data_offset(h) == U16(h.raw, 28)
get_default_tracks_bitset_size(h) ==
    constant_tracks_bitset_offset(h) - default_tracks_bitset_offset(h)
get_constant_tracks_bitset_size(h) ==
    constant_tracks_data_offset(h) - constant_tracks_bitset_offset(h)
get_constant_tracks_data_size(h) ==
    clip_range_data_offset(h) - constant_tracks_data_offset(h)

seg_num_samples(h) == U32(h.raw, 0)
animated_pose_bit_size(h) == I32(h.raw, 4)
format_per_track_data_offset(h) == I32(h.raw, 8)
range_data_offset(h) == I32(h.raw, 12)
track_data_offset(h) == I32(h.raw, 16)

\* ClipHeader.read / SegmentHeader.read: header.offset = f.tell(); f.readinto(header)
HeaderRead(s, p, n) == [offset |-> p, raw |-> ReadInto(s, p, n)]
\* Python's floor division for the section sizes
FloorDiv4(n) == IF n >= 0 THEN n \div 4 ELSE 0 - ((3 - n) \div 4)

(***************************************************************************)
(* BoneTrack                                                               *)
(***************************************************************************)
BoneTrack ==
    [use_default |-> <<FALSE, FALSE, FALSE>>, use_constant |-> <<FALSE, FALSE, FALSE>>,
     constant_list |-> <<>>, track_data |-> <<>>]
set_use_default(flags) ==
    [i \in 1..Len(flags) |-> flags[i] = 1] \o (IF Len(flags) # 3 THEN <<TRUE>> ELSE <<>>)
set_use_constant(flags) ==
    [i \in 1..Len(flags) |-> flags[i] = 1] \o (IF Len(flags) # 3 THEN <<TRUE>> ELSE <<>>)
get_constant_count(track) ==
    3 * Cardinality({i \in 1..Min(Len(track.use_default), Len(track.use_constant)) :
                        (~track.use_default[i]) /\ track.use_constant[i]})
get_range_count(track) ==
    3 - Cardinality({i \in 1..Len(track.use_constant) : track.use_constant[i]})
set_constants(track, data, constant_id) ==
    [track EXCEPT !.constant_list =
        PySlice(data, constant_id, constant_id + get_constant_count(track))]
set_track_data(track, floats, off) ==
    [track EXCEPT !.track_data = PySlice(floats, off, off + get_range_count(track))]

\* the words without zfill(32)
get_tracks_flags_unfilled(bitset, nbones, num_attributes) ==
    PySlice(Flatten([i \in 1..Len(bitset) |-> Format_b32(bitset[i])]), 0, nbones * num_attributes)

\* get_tracks_flags of CompressedClip.read
get_tracks_flags(bitset, nbones, num_attributes) ==
    PySlice(Flatten([i \in 1..Len(bitset) |-> Zfill(Format_b32(bitset[i]), 32)]),
            0, nbones * num_attributes)

(***************************************************************************)
(* RangeData                                                               *)
(***************************************************************************)
unpack_elem(elem, range_min, range_extent) ==
    RAdd(RMul(ToRat(elem), ToRat(range_extent)), ToRat(range_min))
\* zip() stops at the shortest of the three
unpack(rd, xyz) ==
    [i \in 1..Min(Len(xyz), Min(Len(rd.min_xyz), Len(rd.extent_xyz))) |->
        unpack_elem(xyz[i], rd.min_xyz[i], rd.extent_xyz[i])]
\* RangeData.read(f): two vectors of three float32
RangeDataRead(s, p) ==
    [min_xyz |-> <<F32LE(s, p), F32LE(s, p + 4), F32LE(s, p + 8)>>,
     extent_xyz |-> <<F32LE(s, p + 12), F32LE(s, p + 16), F32LE(s, p + 20)>>]
\* io.read_vec3_i8: three signed 8-bit integers
read_vec3_i8(s, p) == <<<<I8(s[p + 1]), 1>>, <<I8(s[p + 2]), 1>>, <<I8(s[p + 3]), 1>>>>
\* RangeData.read(f, segment=True)
SegmentRangeDataRead(s, p) ==
    [min_xyz |-> read_vec3_i8(s, p), extent_xyz |-> read_vec3_i8(s, p + 3)]

(***************************************************************************)
(* The state: the stream, the locals of CompressedClip.read, the bytes     *)
(* CompressedClip.write produced.                                          *)
(***************************************************************************)
VARIABLES
    input,      \* the template and the changed byte the stream was made from
    f,          \* the bytes of the stream
    pos,        \* f.tell()
    from,       \* history: f.tell() when the last step began
    pc,         \* the step of read/write that is next
    err,        \* the exception that ended read, "" while there is none
    at,         \* the step that raised it
    seg,        \* the index (from 1) of s_header in segment_headers
    offset, size, data_hash, clip_header, segment_headers,
    default_tracks_bitset, constant_tracks_bitset, constant_tracks_data,
    bone_tracks, range_count, range_data,
    bit_rates, segment_range_data, track_data, max_int, bone_track_floats,
    bound,      \* the names among bit_rates, track_data, max_int that are assigned
    bins,       \* history: bone_track_bin of each component of the segment unpacked last
    starts,     \* history: where the cursor was when each section began
    out         \* the bytes write has written

stream == <<input, f>>
preamble == <<offset, size, data_hash>>
headers == <<clip_header, segment_headers>>
bitsets == <<default_tracks_bitset, constant_tracks_bitset>>
tracks == <<constant_tracks_data, bone_tracks, range_count>>
segment ==
    <<bit_rates, segment_range_data, track_data, max_int, bone_track_floats, bound, bins>>
vars == <<stream, pos, from, pc, err, at, seg, preamble, headers, bitsets, tracks, range_data,
          segment, starts, out>>

Init ==
    /\ input \in Inputs
    /\ f = Stream(input)
    /\ pos = input.t.base
    /\ from = input.t.base
    /\ pc = "start"
    /\ err = ""
    /\ at = ""
    /\ seg = 0
    /\ offset = 0
    /\ size = 0
    /\ data_hash = <<>>
    /\ clip_header = [offset |-> 0, raw |-> Repeat(0, ClipHeaderSize)]
    /\ segment_headers = <<>>
    /\ default_tracks_bitset = <<>>
    /\ constant_tracks_bitset = <<>>
    /\ constant_tracks_data = <<>>
    /\ bone_tracks = <<>>
    /\ range_count = 0
    /\ range_data = <<>>
    /\ bit_rates = <<>>
    /\ segment_range_data = <<>>
    /\ track_data = <<>>
    /\ max_int = 0
    /\ bone_track_floats = <<>>
    /\ bound = {}
    /\ bins = <<>>
    /\ starts = <<>>
    /\ out = <<>>

\* an exception leaves read at cursor position p
Raise(e, p) == pc' = "failed" /\ err' = e /\ at' = pc /\ pos' = p /\ from' = pos
Goto(step, p) == pc' = step /\ pos' = p /\ from' = pos /\ UNCHANGED <<err, at>>
Left(p) == Len(f) - p
Started(sec, s, p) == Append(starts, [sec |-> sec, seg |-> s, at |-> p])

\* lines 258-276: size, hash, buffer tag, version, algorithm type, padding
ReadPreamble ==
    /\ pc = "start"
    /\ IF Left(pos) < 4 THEN Raise("StructError", Len(f)) /\ UNCHANGED preamble
       ELSE IF Read(f, pos + 8, 4) # BufferTag
            THEN Raise("UnsupportedFormat", Tell(f, pos + 8, 4)) /\ UNCHANGED preamble
       ELSE IF Left(pos + 12) < 2 THEN Raise("StructError", Len(f)) /\ UNCHANGED preamble
       ELSE IF U16(f, pos + 12) # 3
            THEN Raise("UnsupportedFormat", pos + 14) /\ UNCHANGED preamble
       ELSE IF Left(pos + 14) < 1 THEN Raise("StructError", Len(f)) /\ UNCHANGED preamble
       ELSE IF f[pos + 15] # 0 THEN Raise("CorruptData", pos + 15) /\ UNCHANGED preamble
       ELSE IF Left(pos + 15) < 1 THEN Raise("StructError", Len(f)) /\ UNCHANGED preamble
       ELSE IF f[pos + 16] # 0 THEN Raise("CorruptData", pos + 16) /\ UNCHANGED preamble
       ELSE /\ Goto("headers", pos + PreambleSize)
            /\ offset' = pos
            /\ size' = U32(f, pos)
            /\ data_hash' = Read(f, pos + 4, 4)
    /\ UNCHANGED <<stream, seg, headers, bitsets, tracks, range_data, segment, starts, out>>

\* the segment headers read one after the other from position p
RECURSIVE ReadSegmentHeaders(_, _, _)
ReadSegmentHeaders(s, p, n) ==
    IF n <= 0 THEN <<>>
    ELSE <<HeaderRead(s, p, SegmentHeaderSize)>>
           \o ReadSegmentHeaders(s, Tell(s, p, SegmentHeaderSize), n - 1)

\* lines 279-280: the clip header and the segment headers
ReadHeaders ==
    /\ pc = "headers"
    /\ LET h == HeaderRead(f, pos, ClipHeaderSize)
           p1 == Tell(f, pos, ClipHeaderSize)
       IN  /\ clip_header' = h
           /\ segment_headers' = ReadSegmentHeaders(f, p1, num_segments(h))
           /\ starts' = Started("segment_headers", 0, p1)
           /\ Goto("formats", Tell(f, p1, SegmentHeaderSize * num_segments(h)))
    /\ UNCHANGED <<stream, seg, preamble, bitsets, tracks, range_data, segment, out>>

\* lines 283-299: the checks of the formats; a list index out of range is an IndexError
CheckFormats ==
    /\ pc = "formats"
    /\ LET h == clip_header
           crr == clip_range_reduction(h)
           srr == segment_range_reduction(h)
           rot == rotation_format(h)
           trans == translation_format(h)
           scale == scale_format(h)
       IN  IF crr + 1 \notin DOMAIN RANGE_REDUCTION_FLAGS THEN Raise("IndexError", pos)
           ELSE IF RANGE_REDUCTION_FLAGS[crr + 1] # "AllTracks"
                THEN Raise("UnsupportedFormat", pos)
           ELSE IF srr + 1 \notin DOMAIN RANGE_REDUCTION_FLAGS THEN Raise("IndexError", pos)
           ELSE IF RANGE_REDUCTION_FLAGS[srr + 1] \notin {"None", "AllTracks"}
                THEN Raise("UnsupportedFormat", pos)
           ELSE IF rot + 1 \notin DOMAIN ROTATION_FORMAT THEN Raise("IndexError", pos)
           ELSE IF trans + 1 \notin DOMAIN VECTOR_FORMAT THEN Raise("IndexError", pos)
           ELSE IF scale + 1 \notin DOMAIN VECTOR_FORMAT THEN Raise("IndexError", pos)
           ELSE IF ROTATION_FORMAT[rot + 1] # "QuatDropW_Variable"
                THEN Raise("UnsupportedFormat", pos)
           ELSE IF VECTOR_FORMAT[trans + 1] # "Vector3_Variable"
                THEN Raise("UnsupportedFormat", pos)
           ELSE IF VECTOR_FORMAT[scale + 1] # "Vector3_Variable"
                THEN Raise("UnsupportedFormat", pos)
           ELSE IF default_scale(h) # 1 THEN Raise("UnsupportedFormat", pos)
           ELSE Goto("bitsets", pos)
    /\ UNCHANGED <<stream, seg, preamble, headers, bitsets, tracks, range_data, segment,
                   starts, out>>

\* lines 302-304: the two bitsets, as arrays of uint32
ReadBitsets ==
    /\ pc = "bitsets"
    /\ LET nd == Max(FloorDiv4(get_default_tracks_bitset_size(clip_header)), 0)
           nc == Max(FloorDiv4(get_constant_tracks_bitset_size(clip_header)), 0)
           p1 == pos + 4 * nd
       IN  IF Left(pos) < 4 * nd
           THEN Raise("StructError", Len(f)) /\ UNCHANGED <<bitsets, starts>>
           ELSE IF Left(p1) < 4 * nc
           THEN Raise("StructError", Len(f)) /\ UNCHANGED <<bitsets, starts>>
           ELSE /\ default_tracks_bitset' = [i \in 1..nd |-> Word(f, pos + 4 * (i - 1))]
                /\ constant_tracks_bitset' = [i \in 1..nc |-> Word(f, p1 + 4 * (i - 1))]
                /\ starts' = Append(Started("default_bitset", 0, pos),
                                    [sec |-> "constant_bitset", seg |-> 0, at |-> p1])
                /\ Goto("constants", p1 + 4 * nc)
    /\ UNCHANGED <<stream, seg, preamble, headers, tracks, range_data, segment, out>>

\* lines 321-326: the flags and the constants of bones i, i+1, ... (i from 0)
RECURSIVE ReadTracks(_, _, _, _, _, _, _)
ReadTracks(dflags, cflags, data, na, nb, i, constant_count) ==
    IF i >= nb THEN <<>>
    ELSE LET flagged ==
                 [BoneTrack EXCEPT
                    !.use_default = set_use_default(PySlice(dflags, i * na, (i + 1) * na)),
                    !.use_constant = set_use_constant(PySlice(cflags, i * na, (i + 1) * na))]
             track == set_constants(flagged, data, constant_count)
         IN  <<track>> \o ReadTracks(dflags, cflags, data, na, nb, i + 1,
                                     constant_count + get_constant_count(track))

\* lines 306-326: the flags of the tracks, the constant data, the bone tracks
ReadConstants ==
    /\ pc = "constants"
    /\ LET h == clip_header
           num_attributes == 2 + has_scale(h)
           default_tracks_flags ==
               get_tracks_flags(default_tracks_bitset, num_bones(h), num_attributes)
           constant_tracks_flags ==
               get_tracks_flags(constant_tracks_bitset, num_bones(h), num_attributes)
           n == Max(FloorDiv4(get_constant_tracks_data_size(h)), 0)
           data == [i \in 1..n |-> F32LE(f, pos + 4 * (i - 1))]
           made == ReadTracks(default_tracks_flags, constant_tracks_flags, data,
                              num_attributes, num_bones(h), 0, 0)
       IN  IF Left(pos) < 4 * n
           THEN Raise("StructError", Len(f)) /\ UNCHANGED <<tracks, starts>>
           ELSE /\ constant_tracks_data' = data
                /\ bone_tracks' = made
                /\ range_count' = SumSeq([i \in 1..Len(made) |-> get_range_count(made[i])])
                /\ starts' = Started("constant_data", 0, pos)
                /\ Goto("clip_range", pos + 4 * n)
    /\ UNCHANGED <<stream, seg, preamble, headers, bitsets, range_data, segment, out>>

\* the position of a section from its declared offset, counted from the record
SectionAt_record(off) == off + offset

\* the position of a section from its declared offset (lines 329, 337, 345, 357)
SectionAt(off) == off + clip_header.offset

\* after the last statement of a segment: the next segment, or the assembly
AfterSegment(s) == IF s < Len(segment_headers) THEN "bit_rates" ELSE "assemble"

\* lines 329-333: the clip range data
ReadClipRange ==
    /\ pc = "clip_range"
    /\ LET n == Max(range_count, 0)
       IN  IF pos # SectionAt(clip_range_data_offset(clip_header))
           THEN Raise("CorruptData", pos)
                  /\ UNCHANGED <<range_data, bone_track_floats, seg, starts>>
           ELSE IF Left(pos) < 24 * n
           THEN Raise("StructError", Len(f))
                  /\ UNCHANGED <<range_data, bone_track_floats, seg, starts>>
           ELSE /\ range_data' = [i \in 1..n |-> RangeDataRead(f, pos + 24 * (i - 1))]
                /\ bone_track_floats' = [i \in 1..n |-> <<>>]
                /\ seg' = 1
                /\ starts' = Started("clip_range", 0, pos)
                /\ Goto(AfterSegment(0), pos + 24 * n)
    /\ UNCHANGED <<stream, preamble, headers, bitsets, tracks, bit_rates, segment_range_data,
                   track_data, max_int, bound, bins, out>>

\* the padding measured from the start of the stream, not of the clip header
num_padding_from_stream(p, m) == (m - (p % m)) % m

\* num_padding of lines 340 and 349
num_padding(p, m) == (m - ((p - clip_header.offset) % m)) % m

\* the bit-rate bytes kept as they are read
num_bits_raw(raw) == raw

\* line 339: the bit widths of the bit-rate bytes
num_bits(raw) == [i \in 1..Len(raw) |-> BIT_RATE_NUM_BITS[raw[i] + 1]]

\* lines 336-341: the bit rates of a segment and the padding to 2 bytes
ReadBitRates ==
    /\ pc = "bit_rates"
    /\ LET s_header == segment_headers[seg]
           n == Max(range_count, 0)
           raw == Read(f, pos, n)
           p1 == pos + n
           pad == num_padding(p1, 2)
       IN  IF range_count # 0
                /\ pos # SectionAt(format_per_track_data_offset(s_header))
           THEN Raise("CorruptData", pos) /\ UNCHANGED <<bit_rates, bound, starts>>
           ELSE IF Left(pos) < n
           THEN Raise("StructError", Len(f)) /\ UNCHANGED <<bit_rates, bound, starts>>
           ELSE IF \E i \in 1..n : raw[i] + 1 \notin DOMAIN BIT_RATE_NUM_BITS
           THEN Raise("IndexError", p1) /\ UNCHANGED <<bit_rates, bound, starts>>
           ELSE IF Read(f, p1, pad) # Repeat(Sentinel, pad)
           THEN Raise("CorruptData", Tell(f, p1, pad))
                  /\ UNCHANGED <<bit_rates, bound, starts>>
           ELSE /\ bit_rates' = num_bits(raw)
                /\ bound' = bound \cup {"bit_rates"}
                /\ starts' = Append(Started("bit_rates", seg, pos),
                                    [sec |-> "pad2", seg |-> seg, at |-> p1])
                /\ Goto("segment_range", p1 + pad)
    /\ UNCHANGED <<stream, seg, preamble, headers, bitsets, tracks, range_data,
                   segment_range_data, track_data, max_int, bone_track_floats, bins, out>>

NoRange == [none |-> TRUE, min_xyz |-> <<>>, extent_xyz |-> <<>>]

\* lines 344-350: the range data of a segment and the padding to 4 bytes
ReadSegmentRange ==
    /\ pc = "segment_range"
    /\ LET s_header == segment_headers[seg]
           n == Max(range_count, 0)
           all == RANGE_REDUCTION_FLAGS[segment_range_reduction(clip_header) + 1] = "AllTracks"
           p1 == IF all THEN pos + 6 * n ELSE pos
           pad == num_padding(p1, 4)
       IN  IF all /\ pos # SectionAt(range_data_offset(s_header))
           THEN Raise("CorruptData", pos) /\ UNCHANGED <<segment_range_data, starts>>
           ELSE IF all /\ Left(pos) < 6 * n
           THEN Raise("StructError", Len(f)) /\ UNCHANGED <<segment_range_data, starts>>
           ELSE IF Read(f, p1, pad) # Repeat(Sentinel, pad)
           THEN Raise("CorruptData", Tell(f, p1, pad))
                  /\ UNCHANGED <<segment_range_data, starts>>
           ELSE /\ segment_range_data' =
                      IF all
                      THEN [i \in 1..n |->
                              [none |-> FALSE] @@ SegmentRangeDataRead(f, pos + 6 * (i - 1))]
                      ELSE Repeat(NoRange, n)
                /\ starts' = Append(IF all THEN Started("segment_range", seg, pos) ELSE starts,
                                    [sec |-> "pad4", seg |-> seg, at |-> p1])
                /\ Goto("track_data", p1 + pad)
    /\ UNCHANGED <<stream, seg, preamble, headers, bitsets, tracks, range_data,
                   bit_rates, track_data, max_int, bone_track_floats, bound, bins,
                   out>>

\* track_data_size and length of lines 353-355
track_data_size(rates) == SumSeq(rates) * 3
track_data_length(rates, num_samples) == (track_data_size(rates) * num_samples + 7) \div 8

\* lines 353-358: the packed track data of a segment
ReadTrackData ==
    /\ pc = "track_data"
    /\ LET s_header == segment_headers[seg]
           length == track_data_length(bit_rates, seg_num_samples(s_header))
       IN  IF range_count # 0 /\ pos # SectionAt(track_data_offset(s_header))
           THEN Raise("CorruptData", pos) /\ UNCHANGED <<track_data, bound, starts>>
           ELSE IF Left(pos) < length
           THEN Raise("StructError", Len(f)) /\ UNCHANGED <<track_data, bound, starts>>
           ELSE /\ track_data' = Read(f, pos, length)
                /\ bound' = bound \cup {"track_data"}
                /\ starts' = Started("track_data", seg, pos)
                /\ Goto("unpack", pos + length)
    /\ UNCHANGED <<stream, seg, preamble, headers, bitsets, tracks, range_data,
                   bit_rates, segment_range_data, max_int, bone_track_floats, bins, out>>

\* lines 359-361: the track data as a string of bits
binary_of(data) == Flatten([i \in 1..Len(data) |-> Zfill(Format_b(data[i]), 8)])

\* every sample starting on a byte
get_frame_bin_aligned(i, binary, tds, idx, bits) ==
    PySlice(binary, i * 8 * ((tds + 7) \div 8) + idx, i * 8 * ((tds + 7) \div 8) + idx + bits * 3)

\* get_frame_bin of CompressedClip.read (line 365)
get_frame_bin(i, binary, tds, idx, bits) ==
    PySlice(binary, i * tds + idx, i * tds + idx + bits * 3)

\* lines 370-372: the 3 * num_samples bit fields of a component, sample by sample
bone_track_bin(binary, tds, idx, bits, num_samples) ==
    [c \in 1..(3 * num_samples) |->
        LET b == get_frame_bin((c - 1) \div 3, binary, tds, idx, bits)
            k == (c - 1) % 3
        IN  PySlice(b, k * bits, (k + 1) * bits)]

\* the four bytes taken least significant first
F32OfBits_little(b) ==
    <<IntOfBits(SubSeq(b, 25, 32)), IntOfBits(SubSeq(b, 17, 24)),
      IntOfBits(SubSeq(b, 9, 16)), IntOfBits(SubSeq(b, 1, 8))>>

\* int(b, 2).to_bytes(4, "big") and struct.unpack('>f'): the float32 of 32 bits
F32OfBits(b) ==
    <<IntOfBits(SubSeq(b, 1, 8)), IntOfBits(SubSeq(b, 9, 16)),
      IntOfBits(SubSeq(b, 17, 24)), IntOfBits(SubSeq(b, 25, 32))>>

\* the division by 1 << w
PyDiv_pow2(i, w) == IF w > 30 THEN (IF i = 0 THEN <<0, 1>> ELSE NotModelled) ELSE RDiv(i, Pow2(w))

\* max_int is kept as the bit width w it was computed from: (1 << w) - 1
PyDiv(i, w) == IF w > 30 THEN (IF i = 0 THEN <<0, 1>> ELSE NotModelled) ELSE RDiv(i, Pow2(w) - 1)

\* lines 369-389 for one component: its samples, and max_int after it.
\* mi is the width max_int was computed from, or -1 while max_int is unassigned.
UnpackComponent(bits, rd, srd, binary, tds, idx, num_samples, mi) ==
    LET fields == bone_track_bin(binary, tds, idx, bits, num_samples)
        mi2 == IF bits # 0 THEN bits ELSE mi
        ints == IF bits # 0 /\ bits # 32
                THEN [c \in 1..(3 * num_samples) |-> IntOfBits(fields[c])]
                ELSE [c \in 1..(3 * num_samples) |-> 0]
        floats == IF bits # 32
                  THEN [c \in 1..(3 * num_samples) |-> PyDiv(ints[c], mi2)]
                  ELSE [c \in 1..(3 * num_samples) |-> F32OfBits(fields[c])]
        xyzs == [i \in 1..num_samples |-> PySlice(floats, (i - 1) * 3, i * 3)]
        seg_stage == IF bits # 32 /\ ~srd.none
                     THEN [i \in 1..num_samples |-> unpack(srd, xyzs[i])]
                     ELSE xyzs
        clip_stage == IF bits # 32
                      THEN [i \in 1..num_samples |-> unpack(rd, seg_stage[i])]
                      ELSE seg_stage
    IN  IF bits # 32 /\ mi2 < 0 /\ num_samples > 0
        THEN [err |-> "NameError", xyzs |-> <<>>, mi |-> mi2, bin |-> <<>>]
        ELSE [err |-> "", xyzs |-> clip_stage, mi |-> mi2,
              bin |-> IF bits # 0 THEN fields ELSE <<>>]

\* the samples of the segment taking the place of the earlier ones
Extend_assign(list, xyzs) == xyzs

\* bone_track_floats[rid] += xyzs of line 389
Extend(list, xyzs) == list \o xyzs

\* the loop of line 368 from component rid (from 1) on
RECURSIVE UnpackFrom(_, _, _, _, _, _, _, _)
UnpackFrom(rid, n, rates, binary, num_samples, idx, mi, floats) ==
    IF rid > n THEN [err |-> "", floats |-> floats, mi |-> mi, bins |-> <<>>]
    ELSE LET r == UnpackComponent(rates[rid], range_data[rid], segment_range_data[rid],
                                  binary, track_data_size(rates), idx, num_samples, mi)
             rest == UnpackFrom(rid + 1, n, rates, binary, num_samples, idx + rates[rid] * 3,
                                r.mi, [floats EXCEPT ![rid] = Extend(@, r.xyzs)])
         IN  IF r.err # "" THEN [err |-> r.err, floats |-> floats, mi |-> r.mi, bins |-> <<>>]
             ELSE [rest EXCEPT !.bins = <<r.bin>> \o @]

\* lines 359-390: the samples of a segment
Unpack ==
    /\ pc = "unpack"
    /\ LET s_header == segment_headers[seg]
           n == Min(Len(bit_rates), Min(Len(range_data), Max(range_count, 0)))
           r == UnpackFrom(1, n, bit_rates, binary_of(track_data), seg_num_samples(s_header), 0,
                           IF "max_int" \in bound THEN max_int ELSE 0 - 1, bone_track_floats)
       IN  IF r.err # ""
           THEN Raise(r.err, pos) /\ UNCHANGED <<bone_track_floats, max_int, bound, bins, seg>>
           ELSE /\ bone_track_floats' = r.floats
                /\ bins' = r.bins
                /\ max_int' = IF r.mi < 0 THEN max_int ELSE r.mi
                /\ bound' = IF r.mi < 0 THEN bound ELSE bound \cup {"max_int"}
                /\ seg' = IF seg < Len(segment_headers) THEN seg + 1 ELSE seg
                /\ Goto(AfterSegment(seg), pos)
    /\ UNCHANGED <<stream, preamble, headers, bitsets, tracks, range_data, bit_rates,
                   segment_range_data, track_data, starts, out>>

\* lines 393-395: each bone takes its sample lists from the pool
RECURSIVE AssignTracks(_, _, _, _)
AssignTracks(trs, floats, i, idx) ==
    IF i > Len(trs) THEN [tracks |-> trs, idx |-> idx]
    ELSE AssignTracks([trs EXCEPT ![i] = set_track_data(trs[i], floats, idx)], floats, i + 1,
                      idx + get_range_count(trs[i]))

\* lines 393-396
SetTrackData ==
    /\ pc = "assemble"
    /\ LET r == AssignTracks(bone_tracks, bone_track_floats, 1, 0)
       IN  IF r.idx # Len(bone_track_floats)
           THEN Raise("CorruptData", pos) /\ UNCHANGED bone_tracks
           ELSE bone_tracks' = r.tracks /\ Goto("tail", pos)
    /\ UNCHANGED <<stream, seg, preamble, headers, bitsets, constant_tracks_data, range_count,
                   range_data, segment, starts, out>>

\* lines 398-402: the tail, the size, and the construction of the clip
ReadTail ==
    /\ pc = "tail"
    /\ LET p1 == Tell(f, pos, TailSize)
       IN  IF Read(f, pos, TailSize) # Repeat(Sentinel, TailSize)
           THEN Raise("CorruptData", p1) /\ UNCHANGED starts
           ELSE IF p1 - offset # size THEN Raise("CorruptData", p1) /\ UNCHANGED starts
           ELSE IF ~({"bit_rates", "track_data"} \subseteq bound)
           THEN Raise("NameError", p1) /\ UNCHANGED starts
           ELSE starts' = Started("tail", 0, pos) /\ Goto("done", p1)
    /\ UNCHANGED <<stream, seg, preamble, headers, bitsets, tracks, range_data, segment, out>>

\* list.index
IndexOf(s, x) == (CHOOSE i \in 1..Len(s) : s[i] = x) - 1

\* lines 404-421: CompressedClip.write of the clip read returned
Write ==
    /\ pc = "done"
    /\ out' =
         U32Bytes(size) \o data_hash \o BufferTag \o U32Bytes(3)
           \o clip_header.raw
           \o Flatten([i \in 1..Len(segment_headers) |-> segment_headers[i].raw])
           \o Flatten([i \in 1..Len(default_tracks_bitset) |->
                          WordBytes(default_tracks_bitset[i])])
           \o Flatten([i \in 1..Len(constant_tracks_bitset) |->
                          WordBytes(constant_tracks_bitset[i])])
           \o Flatten([i \in 1..Len(bone_tracks) |->
                          Flatten([j \in 1..Len(bone_tracks[i].constant_list) |->
                                      F32LEBytes(bone_tracks[i].constant_list[j])])])
           \o Flatten([i \in 1..Len(range_data) |->
                          Flatten([k \in 1..3 |-> F32LEBytes(range_data[i].min_xyz[k])])
                            \o Flatten([k \in 1..3 |-> F32LEBytes(range_data[i].extent_xyz[k])])])
           \o [i \in 1..Len(bit_rates) |-> IndexOf(BIT_RATE_NUM_BITS, bit_rates[i])]
           \o Repeat(Sentinel, 4 - (Len(bit_rates) % 4))
           \o track_data
           \o Repeat(Sentinel, TailSize)
    /\ pc' = "written"
    /\ UNCHANGED <<stream, pos, from, err, at, seg, preamble, headers, bitsets, tracks, range_data,
                   segment, starts>>

Next ==
    \/ ReadPreamble
    \/ ReadHeaders
    \/ CheckFormats
    \/ ReadBitsets
    \/ ReadConstants
    \/ ReadClipRange
    \/ ReadBitRates
    \/ ReadSegmentRange
    \/ ReadTrackData
    \/ Unpack
    \/ SetTrackData
    \/ ReadTail
    \/ Write

Spec == Init /\ [][Next]_vars

(***************************************************************************)
(* The claims.                                                             *)
(***************************************************************************)
Accepted == pc \in {"done", "written"}
Consumed == SubSeq(f, offset + 1, pos)

\* C1: for every record decode accepts, whatever its number of segments, its
\* segment range reduction and its rangeCount, encode of the returned clip
\* writes exactly the bytes decode consumed, byte for byte and of the same length.
C1_RoundTrip == pc = "written" => out = Consumed

\* the steps of read in their order, and the step read is at or failed in
Steps ==
    <<"start", "headers", "formats", "bitsets", "constants", "clip_range", "bit_rates",
      "segment_range", "track_data", "unpack", "assemble", "tail", "done", "written">>
StepNo(step) == CHOOSE i \in DOMAIN Steps : Steps[i] = step
Here == IF pc = "failed" THEN at ELSE pc
\* read has completed the step before this one
Reached(step) == StepNo(Here) >= StepNo(step)

\* C2: when clip_range_reduction is any byte other than 7 (AllTracks), decode
\* fails with UnsupportedFormat and has consumed nothing after the clip header.
C2_ClipRangeReductionRejected ==
    (Reached("bitsets") \/ (pc = "failed" /\ at = "formats"))
      /\ clip_range_reduction(clip_header) # 7
    => /\ pc = "failed"
       /\ err = "UnsupportedFormat"
       /\ pos = clip_header.offset + ClipHeaderSize

\* C3: with a supported clip_range_reduction, when rotation_format is not
\* QuatDropW_Variable (4), or translation_format or scale_format is not
\* Vector3_Variable (3), or segment_range_reduction is neither None (0) nor
\* AllTracks (7), or default_scale is not 1, decode fails with UnsupportedFormat
\* and with no other kind of failure.
C3_FormatsRejected ==
    (Reached("bitsets") \/ (pc = "failed" /\ at = "formats"))
      /\ clip_range_reduction(clip_header) = 7
      /\ \/ rotation_format(clip_header) # 4
         \/ translation_format(clip_header) # 3
         \/ scale_format(clip_header) # 3
         \/ segment_range_reduction(clip_header) \notin {0, 7}
         \/ default_scale(clip_header) # 1
    => pc = "failed" /\ err = "UnsupportedFormat"

\* the bytes decode read as the padding run that starts at a and pads to m
PadRun(a, m) == Read(f, a, num_padding(a, m))
BitAt(data, j) == (data[(j \div 8) + 1] \div Pow2(7 - (j % 8))) % 2
\* bit i of the concatenation, most significant bit first per word, of the
\* little-endian 32-bit words that start at stream position a
WordsBit(a, i) ==
    LET j == i % 32
    IN  BitAt(SubSeq(f, a + 4 * (i \div 32) + 1, a + 4 * (i \div 32) + 4),
              8 * (3 - (j \div 8)) + (j % 8))
SectionStart(sec) == (CHOOSE i \in DOMAIN starts : starts[i].sec = sec)
HasSection(sec) == \E i \in DOMAIN starts : starts[i].sec = sec
NumAttributes == 2 + has_scale(clip_header)
NumFlags == num_bones(clip_header) * NumAttributes

\* C5: for both bitsets and every index i below numBones * numAttributes, the
\* flag of attribute (i mod numAttributes) of bone (i div numAttributes) is bit i
\* of the bitset's words, most significant bit first per word; the bits from
\* numBones * numAttributes on give no flag.
C5_BitsetFlags ==
    HasSection("constant_data") =>
      /\ Len(bone_tracks) = num_bones(clip_header)
      /\ \A i \in 0..(NumFlags - 1) :
            LET track == bone_tracks[(i \div NumAttributes) + 1]
                a == (i % NumAttributes) + 1
            IN  /\ i < 32 * Len(default_tracks_bitset) =>
                      track.use_default[a]
                        = (WordsBit(starts[SectionStart("default_bitset")].at, i) = 1)
                /\ i < 32 * Len(constant_tracks_bitset) =>
                      track.use_constant[a]
                        = (WordsBit(starts[SectionStart("constant_bitset")].at, i) = 1)
      /\ \A b \in DOMAIN bone_tracks :
            /\ Len(bone_tracks[b].use_default) <= NumAttributes + 1
            /\ Len(bone_tracks[b].use_constant) <= NumAttributes + 1
            /\ Len(bone_tracks[b].use_default) = NumAttributes + 1
                  => bone_tracks[b].use_default[NumAttributes + 1]
            /\ Len(bone_tracks[b].use_constant) = NumAttributes + 1
                  => bone_tracks[b].use_constant[NumAttributes + 1]
\* a clip of 12 bones with scale: 36 flags in two words, the last flag set, the
\* one before it clear, and the first unused bit of the second word clear
C5_Witness ==
    /\ HasSection("constant_data")
    /\ NumFlags = 36 /\ Len(default_tracks_bitset) = 2
    /\ bone_tracks[12].use_default = <<TRUE, FALSE, TRUE>>
    /\ WordsBit(starts[SectionStart("default_bitset")].at, 36) = 0

\* C6: whenever decode succeeds, the constant counts of the bones add up to the
\* number of floats of the constant-data section.
C6_ConstantCount ==
    Accepted =>
      SumSeq([b \in DOMAIN bone_tracks |-> get_constant_count(bone_tracks[b])])
        = Len(constant_tracks_data)

\* read has just unpacked a segment; bit_rates, segment_range_data and
\* track_data are that segment's
JustUnpacked ==
    \/ pc = "bit_rates" /\ seg > 1
    \/ pc = "assemble" /\ segment_headers # <<>>
UnpackedSeg == IF pc = "bit_rates" THEN seg - 1 ELSE seg
UnpackedSamples == seg_num_samples(segment_headers[UnpackedSeg])
\* the bits of one sample, and the bit at which component rid starts in it
Stride == 3 * SumSeq(bit_rates)
CompOffset(rid) == 3 * SumSeq(SubSeq(bit_rates, 1, rid - 1))
\* the unsigned integer of the b bits of data from bit off on, most significant first
RECURSIVE Code(_, _, _)
Code(data, off, b) == IF b = 0 THEN 0 ELSE 2 * Code(data, off, b - 1) + BitAt(data, off + b - 1)
\* sub-channel k (from 0) of sample s (from 0) of component rid of the segment
FieldOffset(rid, s, k) == s * Stride + CompOffset(rid) + k * bit_rates[rid]
Decoded(rid, s, k) ==
    bone_track_floats[rid][Len(bone_track_floats[rid]) - UnpackedSamples + s + 1][k + 1]
SegmentAllTracks == segment_range_reduction(clip_header) = 7
ClipStage(v, rid, k) ==
    RAdd(RMul(v, F32Rat(range_data[rid].extent_xyz[k + 1])),
         F32Rat(range_data[rid].min_xyz[k + 1]))
SegmentStage(v, rid, k) ==
    RAdd(RMul(v, segment_range_data[rid].extent_xyz[k + 1]),
         segment_range_data[rid].min_xyz[k + 1])
Dequantized(v, rid, k) ==
    IF SegmentAllTracks THEN ClipStage(SegmentStage(v, rid, k), rid, k) ELSE ClipStage(v, rid, k)
Fields == {<<rid, s, k>> \in (DOMAIN bit_rates) \X (0..(UnpackedSamples - 1)) \X (0..2) : TRUE}

\* C7: a sub-channel of a component of bit width b in 3..19 decodes to
\* ((code / (2^b - 1)) * segExtent + segMin) * clipExtent + clipMin under
\* AllTracks and to (code / (2^b - 1)) * clipExtent + clipMin under None, code
\* being the b-bit integer read most significant bit first; with b = 8, clip
\* range min 0 and extent 1 and no segment range the codes 0x00 and 0xFF decode
\* to 0 and 1.
C7_Dequantization ==
    JustUnpacked =>
      \A x \in Fields :
        LET rid == x[1]
            b == bit_rates[rid]
            code == Code(track_data, FieldOffset(rid, x[2], x[3]), b)
        IN  b \in 3..19 =>
              /\ Decoded(rid, x[2], x[3]) = Dequantized(RNorm(code, Pow2(b) - 1), rid, x[3])
              /\ (b = 8 /\ ~SegmentAllTracks
                    /\ F32Rat(range_data[rid].min_xyz[x[3] + 1]) = <<0, 1>>
                    /\ F32Rat(range_data[rid].extent_xyz[x[3] + 1]) = <<1, 1>>)
                  => /\ code = 0 => Decoded(rid, x[2], x[3]) = <<0, 1>>
                     /\ code = 255 => Decoded(rid, x[2], x[3]) = <<1, 1>>
\* one component of 8 bits, two samples with the codes 0x00 and 0xFF
C7_Witness ==
    /\ JustUnpacked /\ ~SegmentAllTracks
    /\ bit_rates = <<8>> /\ UnpackedSamples = 2
    /\ track_data = <<0, 0, 0, 255, 255, 255>>
    /\ bone_track_floats = <<<< <<<<0, 1>>, <<0, 1>>, <<0, 1>>>>, <<<<1, 1>>, <<1, 1>>, <<1, 1>>>> >>>>

\* C8: a component of bit width 0, wherever it stands in the order of the
\* components (also first in the first segment), is decoded without failure,
\* and each of its sub-channels is the range stages applied to 0.
C8_ZeroWidth ==
    /\ ~(pc = "failed" /\ at = "unpack" /\ \E rid \in DOMAIN bit_rates : bit_rates[rid] = 0)
    /\ JustUnpacked =>
         \A x \in Fields :
            bit_rates[x[1]] = 0 => Decoded(x[1], x[2], x[3]) = Dequantized(<<0, 1>>, x[1], x[3])

\* C9: a sub-channel of a component of bit width 32 is the 32 bits found at
\* its place in the sample, as a float32 of that very pattern (big-endian):
\* no range is applied to it.
C9_FullPrecision ==
    JustUnpacked =>
      \A x \in Fields :
        LET off == FieldOffset(x[1], x[2], x[3])
        IN  bit_rates[x[1]] = 32 =>
              Decoded(x[1], x[2], x[3])
                = <<Code(track_data, off, 8), Code(track_data, off + 8, 8),
                    Code(track_data, off + 16, 8), Code(track_data, off + 24, 8)>>
\* a 32-bit component that starts 9 bits into the sample, with the sign bit set
C9_Witness ==
    /\ JustUnpacked
    /\ \E x \in Fields :
          LET off == FieldOffset(x[1], x[2], x[3])
          IN  /\ bit_rates[x[1]] = 32 /\ CompOffset(x[1]) = 9
              /\ Decoded(x[1], x[2], x[3])[1] >= 128
              /\ Decoded(x[1], x[2], x[3])
                   = <<Code(track_data, off, 8), Code(track_data, off + 8, 8),
                       Code(track_data, off + 16, 8), Code(track_data, off + 24, 8)>>

\* the offset the headers declare for a section, from the clip header
Declared(e) ==
    CASE e.sec = "segment_headers" -> segment_headers_offset(clip_header)
      [] e.sec = "default_bitset"  -> default_tracks_bitset_offset(clip_header)
      [] e.sec = "constant_bitset" -> constant_tracks_bitset_offset(clip_header)
      [] e.sec = "constant_data"   -> constant_tracks_data_offset(clip_header)
      [] e.sec = "clip_range"      -> clip_range_data_offset(clip_header)
      [] e.sec = "bit_rates"       -> format_per_track_data_offset(segment_headers[e.seg])
      [] e.sec = "segment_range"   -> range_data_offset(segment_headers[e.seg])
      [] e.sec = "track_data"      -> track_data_offset(segment_headers[e.seg])
Sections ==
    {"segment_headers", "default_bitset", "constant_bitset", "constant_data", "clip_range",
     "bit_rates", "segment_range", "track_data"}
Agrees(e) == e.at = clip_header.offset + Declared(e)

\* C10 as stated: decode begins no section (segment headers, default bitset,
\* constant bitset, constant data, clip range data, and per segment the bit
\* rates, the segment range data and the track data) at a position other than
\* clip header start + the offset declared for it, also when rangeCount is 0.
C10_AllOffsetsChecked ==
    \A i \in DOMAIN starts : starts[i].sec \in Sections => Agrees(starts[i])

\* C10 amended: the sections whose position decode compares with the declared
\* offset are the clip range data, every segment's range data under AllTracks
\* and, when rangeCount is not 0, every segment's bit rates and track data:
\* decode begins none of these elsewhere, a disagreement there is CorruptData,
\* and a record whose offsets are those of its layout is not rejected by them.
C10_CheckedOffsets ==
    /\ \A i \in DOMAIN starts :
          /\ starts[i].sec \in {"clip_range", "segment_range"} => Agrees(starts[i])
          /\ starts[i].sec \in {"bit_rates", "track_data"} /\ range_count # 0
                => Agrees(starts[i])
    /\ pc = "failed" /\ at = "clip_range"
          /\ ~Agrees([sec |-> "clip_range", seg |-> 0, at |-> from])
          => err = "CorruptData"
    /\ pc = "failed" /\ at = "segment_range" /\ SegmentAllTracks
          /\ ~Agrees([sec |-> "segment_range", seg |-> seg, at |-> from])
          => err = "CorruptData"
    /\ pc = "failed" /\ at \in {"bit_rates", "track_data"} /\ range_count # 0
          /\ ~Agrees([sec |-> at, seg |-> seg, at |-> from])
          => err = "CorruptData"
    /\ input.mp = NoMut => err # "CorruptData"
\* a record whose declared track data offset was changed is rejected
C10_Witness ==
    /\ pc = "failed" /\ err = "CorruptData" /\ at = "track_data" /\ range_count # 0
    /\ input.mp # NoMut
    /\ from # clip_header.offset + track_data_offset(segment_headers[seg])


\* flag i of a bone's flag list is set
IsSet(flags, i) == i <= Len(flags) /\ flags[i]
\* the components (rotation, translation, scale) of a bone that are neither
\* default nor constant
RangeReduced(track) ==
    {i \in 1..3 : ~IsSet(track.use_default, i) /\ ~IsSet(track.use_constant, i)}

\* C11: for every bone, whatever the default and constant flags of its three
\* components (scale being default when has_scale is 0), get_range_count() is
\* the number of components that are neither default nor constant, and the
\* rangeCount that sizes the clip range table and every segment's bit-rate and
\* range tables is the sum of that number over the bones.
C11_RangeCount ==
    HasSection("constant_data") =>
      /\ \A b \in DOMAIN bone_tracks :
            get_range_count(bone_tracks[b]) = Cardinality(RangeReduced(bone_tracks[b]))
      /\ range_count
            = SumSeq([b \in DOMAIN bone_tracks |-> Cardinality(RangeReduced(bone_tracks[b]))])


\* the bits of data from bit off on, b of them, most significant bit of a byte first
BitsAt(data, off, b) == [j \in 1..b |-> BitAt(data, off + j - 1)]
\* the bit positions of the block a field takes
FieldBits(x) ==
    FieldOffset(x[1], x[2], x[3])..(FieldOffset(x[1], x[2], x[3]) + bit_rates[x[1]] - 1)

\* C12: the packed block of a segment of bit widths w has
\* ceil(sum(w) * 3 * numSamples / 8) bytes; sub-channel k of component i in
\* sample s is read from the w[i] bits at s * (3 * sum(w)) + 3 * sum(w[0..i-1])
\* + k * w[i], most significant bit first; no two fields overlap and no field
\* extends past the end of the block.
C12_BitLayout ==
    JustUnpacked =>
      /\ Len(bins) = Len(bit_rates)
      /\ 8 * Len(track_data) >= Stride * UnpackedSamples
      /\ 8 * Len(track_data) < Stride * UnpackedSamples + 8
      /\ \A x \in Fields :
            /\ FieldOffset(x[1], x[2], x[3]) + bit_rates[x[1]] <= 8 * Len(track_data)
            /\ bit_rates[x[1]] # 0 =>
                  bins[x[1]][3 * x[2] + x[3] + 1]
                    = BitsAt(track_data, FieldOffset(x[1], x[2], x[3]), bit_rates[x[1]])
            /\ \A y \in Fields : x # y => FieldBits(x) \cap FieldBits(y) = {}
\* widths 3 and 32 and two samples: a sample is 105 bits, and the second sample
\* of the second component starts at bit 114, inside a byte
C12_Witness ==
    /\ JustUnpacked /\ UnpackedSamples = 2
    /\ bit_rates = <<3, 32>>
    /\ Len(track_data) = 27
    /\ FieldOffset(2, 1, 0) = 114
    /\ bins[2][4] = BitsAt(track_data, 114, 32)
    /\ \E j \in 1..32 : bins[2][4][j] # bins[2][1][j]


\* the samples the segments hold together
TotalSamples == SumSeq([s \in DOMAIN segment_headers |-> seg_num_samples(segment_headers[s])])

\* C13 as stated: whenever decode succeeds the pool holds rangeCount lists, each
\* of as many samples as the clip header's num_samples.
C13_PoolOfClipSamples ==
    Accepted =>
      /\ Len(bone_track_floats) = range_count
      /\ \A rid \in DOMAIN bone_track_floats :
            Len(bone_track_floats[rid]) = clip_num_samples(clip_header)


\* the samples of segments 1..n together
SamplesUpTo(n) == SumSeq([s \in 1..n |-> seg_num_samples(segment_headers[s])])

\* C13 amended: whenever decode succeeds the pool holds rangeCount lists, each
\* of as many samples as the segment headers' num_samples add up to, every
\* segment having appended its own num_samples samples in segment order; the
\* clip header's num_samples is not compared with it.
C13_PoolOfSegmentSamples ==
    /\ Accepted =>
          /\ Len(bone_track_floats) = range_count
          /\ \A rid \in DOMAIN bone_track_floats :
                Len(bone_track_floats[rid]) = TotalSamples
    /\ JustUnpacked =>
          \A rid \in DOMAIN bone_track_floats :
             Len(bone_track_floats[rid]) = SamplesUpTo(UnpackedSeg)
\* two segments of two samples each and two range-reduced components
C13_Witness ==
    /\ Accepted /\ Len(segment_headers) = 2 /\ range_count = 2
    /\ TotalSamples = 4
    /\ \A rid \in 1..2 : Len(bone_track_floats[rid]) = 4


\* read has handed the pool to the bones
Assigned == pc \in {"tail", "done", "written"} \/ (pc = "failed" /\ at = "tail")
\* the range counts of the bones before bone k (from 1) together
PoolOffset(k) == SumSeq([j \in 1..(k - 1) |-> get_range_count(bone_tracks[j])])
\* the bones that own pool list p (from 1)
Owners(p) ==
    {k \in DOMAIN bone_tracks :
        PoolOffset(k) < p /\ p <= PoolOffset(k) + get_range_count(bone_tracks[k])}

\* C14: after decode bone k owns exactly the pool lists [o_k, o_k + r_k), r_k
\* being its range count and o_k the sum of the range counts of the bones
\* before it; every pool list is owned by exactly one bone, and the total
\* consumed is rangeCount.
C14_PoolOwnership ==
    Assigned =>
      /\ \A k \in DOMAIN bone_tracks :
            /\ Len(bone_tracks[k].track_data) = get_range_count(bone_tracks[k])
            /\ \A i \in 1..Len(bone_tracks[k].track_data) :
                  /\ PoolOffset(k) + i \in DOMAIN bone_track_floats
                  /\ bone_tracks[k].track_data[i] = bone_track_floats[PoolOffset(k) + i]
      /\ \A p \in DOMAIN bone_track_floats : Cardinality(Owners(p)) = 1
      /\ PoolOffset(Len(bone_tracks) + 1) = range_count
      /\ Len(bone_track_floats) = range_count


\* where section sec of segment s began
SectionOf(sec, s) ==
    starts[CHOOSE i \in DOMAIN starts : starts[i].sec = sec /\ starts[i].seg = s].at
\* the bit widths the bit-rate bytes of segment s stand for, and its packed block
SegBitRates(s) ==
    [i \in 1..range_count |-> BIT_RATE_NUM_BITS[f[SectionOf("bit_rates", s) + i] + 1]]
SegTrackData(s) ==
    SubSeq(f, SectionOf("track_data", s) + 1,
           IF s < Len(segment_headers) THEN SectionOf("bit_rates", s + 1)
           ELSE SectionOf("tail", 0))

\* C15: after decoding a clip of n >= 1 segments the bit_rates and track_data
\* of the returned clip are those of segment n, the last one read: the tables
\* and blocks of the segments before it are not kept.
C15_LastSegmentKept ==
    Accepted /\ segment_headers # <<>> =>
      /\ bit_rates = SegBitRates(Len(segment_headers))
      /\ track_data = SegTrackData(Len(segment_headers))
\* two segments whose bit rates and packed bytes differ
C15_Witness ==
    /\ Accepted /\ Len(segment_headers) = 2 /\ range_count = 2
    /\ bit_rates = SegBitRates(2) /\ bit_rates # SegBitRates(1)
    /\ track_data = SegTrackData(2) /\ track_data # SegTrackData(1)

====
